---- MODULE Spec2Model ----
(***************************************************************************)
(* InfoSearch: an offline indexer (src/indexer/main.cpp) that turns a      *)
(* stream of HTML records into forward.idx / inverted.idx, and a query     *)
(* engine (src/engine/main.cpp) that loads the two files and answers       *)
(* boolean queries.                                                        *)
(*                                                                         *)
(* Characters are one-character strings ("a", " ", "<"); Cyrillic letters  *)
(* are written by name ("cyr_o").  A text is a sequence of characters, a   *)
(* file is a sequence of bytes (0..255).                                   *)
(***************************************************************************)
EXTENDS Integers, Sequences, FiniteSets, TLC

VARIABLES
    \* ---- indexer process (src/indexer/main.cpp)
    pc,            \* position of the indexer's main: "reading", "eof", "saved"
    line,          \* the record last read by getline (NoLine before the first)
    hash_table,    \* bucket index -> chain of TermEntry, newest first
    documents,     \* documents[0 .. stats.doc_count-1] (sequence, 1-based here)
    stats,         \* Stats
    calls,         \* log of the add_term calls of the last process_html
    nread,         \* number of records read so far
    nhtml,         \* number of records read that carry html_content
    \* ---- the two index files
    forward_idx,
    inverted_idx,
    \* ---- engine process (src/engine/main.cpp)
    e_pc,          \* "start", "prompt", "exit", "aborted"
    e_documents,   \* std::vector<std::string> documents
    e_hash_table,  \* std::unordered_map<std::string, TermEntry*>
    query,         \* the query line last read
    cout,          \* what the last query printed to std::cout
    cerr           \* number of messages the last step wrote to std::cerr

vars == <<pc, line, hash_table, documents, stats, calls, nread, nhtml,
          forward_idx, inverted_idx,
          e_pc, e_documents, e_hash_table, query, cout, cerr>>

ixvars == <<pc, line, hash_table, documents, stats, calls, nread, nhtml>>
filevars == <<forward_idx, inverted_idx>>
envars == <<e_pc, e_documents, e_hash_table, query, cout, cerr>>

(***************************************************************************)
(* Bounds of the model                                                     *)
(***************************************************************************)
MaxRecords == 3      \* records read from stdin in one run
MaxDocLen == 2       \* length of the exhaustively enumerated texts
MaxCalls == 4        \* add_term calls in the index-builder specification
MaxDocs == 2         \* documents of an engine-side index file
MaxQueryLen == 2     \* length of the exhaustively enumerated queries

(***************************************************************************)
(* Program constants                                                       *)
(***************************************************************************)
MAX_TOKEN_LEN == 64
HASH_SIZE == 1000003

\* an optional string: None (extract returned NULL) or Some(the string)
None == <<>>
Some(v) == <<v>>
Absent == None
NoLine == [html_content |-> None, url |-> None, oid |-> None]
NoFile == <<-1>>        \* the file does not exist (no byte is -1)

(***************************************************************************)
(* Characters                                                              *)
(***************************************************************************)
LatinLower == {"a", "b", "c", "d", "e", "g", "i", "k", "l", "n", "r", "u",
               "w", "s", "p", "t", "y"}
LatinUpper == {"A", "B", "S", "C", "R", "I", "P", "T"}
Digits == {"0", "1", "2"}
CyrLower == {"cyr_a", "cyr_v", "cyr_e", "cyr_k", "cyr_m", "cyr_o", "cyr_t",
             "cyr_ya", "cyr_yo"}
CyrUpper == {"CYR_A", "CYR_YA", "CYR_YO"}
Separators == {" ", "<", ">", "/", ".", "-"}

\* the code point of a character (the value of the wchar_t)
Code ==
    ("a" :> 97) @@ ("b" :> 98) @@ ("c" :> 99) @@ ("d" :> 100) @@ ("e" :> 101)
 @@ ("g" :> 103) @@ ("i" :> 105) @@ ("k" :> 107) @@ ("l" :> 108)
 @@ ("n" :> 110) @@ ("r" :> 114) @@ ("u" :> 117) @@ ("w" :> 119)
 @@ ("s" :> 115) @@ ("p" :> 112) @@ ("t" :> 116) @@ ("y" :> 121)
 @@ ("A" :> 65) @@ ("B" :> 66) @@ ("S" :> 83) @@ ("C" :> 67) @@ ("R" :> 82)
 @@ ("I" :> 73) @@ ("P" :> 80) @@ ("T" :> 84)
 @@ ("0" :> 48) @@ ("1" :> 49) @@ ("2" :> 50)
 @@ ("cyr_a" :> 1072) @@ ("cyr_v" :> 1074) @@ ("cyr_e" :> 1077)
 @@ ("cyr_k" :> 1082) @@ ("cyr_m" :> 1084) @@ ("cyr_o" :> 1086)
 @@ ("cyr_t" :> 1090) @@ ("cyr_ya" :> 1103) @@ ("cyr_yo" :> 1105)
 @@ ("CYR_A" :> 1040) @@ ("CYR_YA" :> 1071) @@ ("CYR_YO" :> 1025)
 @@ (" " :> 32) @@ ("<" :> 60) @@ (">" :> 62) @@ ("/" :> 47) @@ ("." :> 46)
 @@ ("-" :> 45)

\* towlower / towlower in the ru_RU.UTF-8 locale
towlower(c) ==
    CASE c = "A" -> "a" [] c = "B" -> "b" [] c = "S" -> "s" [] c = "C" -> "c"
      [] c = "R" -> "r" [] c = "I" -> "i" [] c = "P" -> "p" [] c = "T" -> "t"
      [] c = "CYR_A" -> "cyr_a" [] c = "CYR_YA" -> "cyr_ya"
      [] c = "CYR_YO" -> "cyr_yo"
      [] OTHER -> c

iswalpha(c) == c \in LatinLower \cup LatinUpper \cup CyrLower \cup CyrUpper
iswalnum(c) == iswalpha(c) \/ c \in Digits

is_valid_char(c) ==
    \/ iswalnum(c)
    \/ (Code[c] >= Code["CYR_A"] /\ Code[c] <= Code["CYR_YA"])
    \/ (Code[c] >= Code["cyr_a"] /\ Code[c] <= Code["cyr_ya"])
    \/ c = "CYR_YO" \/ c = "cyr_yo"

(***************************************************************************)
(* hash: djb2 over the code points, in 32-bit unsigned arithmetic, modulo  *)
(* HASH_SIZE.  The 32-bit value is kept as two 16-bit halves.              *)
(***************************************************************************)
RECURSIVE hash_loop(_, _, _, _)
hash_loop(s, i, hi, lo) ==
    IF i > Len(s) THEN <<hi, lo>>
    ELSE LET l == lo * 33 + Code[s[i]]
             h == hi * 33 + (l \div 65536)
         IN  hash_loop(s, i + 1, h % 65536, l % 65536)

hash(s) ==
    LET h == hash_loop(s, 1, 5381 \div 65536, 5381 % 65536)
        top == (((h[1] * 256) % HASH_SIZE) * 256) % HASH_SIZE
    IN  (top + h[2]) % HASH_SIZE

(***************************************************************************)
(* html_filter_char: the tag-stripping state machine.  Returns the         *)
(* character it lets through (NUL for none) and the next HtmlState.        *)
(***************************************************************************)
NUL == "NUL"    \* the wchar_t 0

HtmlState0 ==
    [inside_tag |-> 0, inside_script |-> 0, inside_style |-> 0,
     is_closing |-> 0, tag |-> <<>>, tag_len |-> 0]

ScriptTag == <<"s", "c", "r", "i", "p", "t">>
StyleTag == <<"s", "t", "y", "l", "e">>

html_filter_char(c, st) ==
    IF c = "<" THEN
        [ret |-> NUL,
         st |-> [st EXCEPT !.inside_tag = 1, !.tag_len = 0, !.is_closing = 0]]
    ELSE IF st.inside_tag # 0 THEN
        LET s1 == IF c = "/" THEN [st EXCEPT !.is_closing = 1]
                  ELSE IF iswalpha(c) /\ st.tag_len < 31
                       THEN [st EXCEPT
                               !.tag = SubSeq(st.tag, 1, st.tag_len)
                                          \o <<towlower(c)>>,
                               !.tag_len = st.tag_len + 1]
                       ELSE st
            s2 == IF c = ">" THEN
                      LET s3 == [s1 EXCEPT !.inside_tag = 0]
                          open == IF s1.is_closing = 0 THEN 1 ELSE 0
                      IN  IF s1.tag = ScriptTag
                              THEN [s3 EXCEPT !.inside_script = open]
                          ELSE IF s1.tag = StyleTag
                              THEN [s3 EXCEPT !.inside_style = open]
                          ELSE s3
                  ELSE s1
        IN  [ret |-> NUL, st |-> s2]
    ELSE IF st.inside_script # 0 \/ st.inside_style # 0 THEN
        [ret |-> NUL, st |-> st]
    ELSE [ret |-> c, st |-> st]

(***************************************************************************)
(* stem: at most one suffix removed                                        *)
(***************************************************************************)
EndsWith(t, suf) ==
    Len(t) >= Len(suf) /\ SubSeq(t, Len(t) - Len(suf) + 1, Len(t)) = suf

stem(t) ==
    LET len == Len(t)
    IN  IF len > 4 /\ EndsWith(t, <<"cyr_o", "cyr_v">>) THEN SubSeq(t, 1, len - 2)
        ELSE IF len > 4 /\ EndsWith(t, <<"cyr_e", "cyr_v">>) THEN SubSeq(t, 1, len - 2)
        ELSE IF len > 4 /\ EndsWith(t, <<"cyr_a", "cyr_m">>) THEN SubSeq(t, 1, len - 2)
        ELSE IF len > 4 /\ EndsWith(t, <<"cyr_yo", "cyr_m">>) THEN SubSeq(t, 1, len - 2)
        ELSE IF len > 5 /\ EndsWith(t, <<"i", "n", "g">>) THEN SubSeq(t, 1, len - 3)
        ELSE IF len > 4 /\ EndsWith(t, <<"e", "d">>) THEN SubSeq(t, 1, len - 2)
        ELSE t

(***************************************************************************)
(* Index builder: add_doc, add_term.  A TermEntry is [term, freq,          *)
(* doc_count, docs]; docs is the linked list, head first.  A chain is the  *)
(* sequence of the entries of one bucket, head first.                      *)
(***************************************************************************)
\* add_doc without the scan of the list
add_doc_no_scan(t, doc_id) ==
    [t EXCEPT !.docs = <<doc_id>> \o t.docs, !.doc_count = t.doc_count + 1]

add_doc(t, doc_id) ==
    IF \E k \in 1..Len(t.docs) : t.docs[k] = doc_id
        THEN t
        ELSE [t EXCEPT !.docs = <<doc_id>> \o t.docs,
                       !.doc_count = t.doc_count + 1]

Chain(ht, h) == IF h \in DOMAIN ht THEN ht[h] ELSE <<>>

\* add_term on the pair (hash_table, stats); returns the new pair
add_term(ht, sts, token, doc_id) ==
    LET h == hash(token)
        chain == Chain(ht, h)
        hits == {k \in 1..Len(chain) : chain[k].term = token}
    IN  IF hits # {} THEN
            LET k == CHOOSE m \in hits : \A n \in hits : m <= n
                e == add_doc([chain[k] EXCEPT !.freq = chain[k].freq + 1], doc_id)
            IN  [ht |-> (h :> [chain EXCEPT ![k] = e]) @@ ht, stats |-> sts]
        ELSE
            LET e == add_doc([term |-> token, freq |-> 1, doc_count |-> 0,
                              docs |-> <<>>], doc_id)
            IN  [ht |-> (h :> (<<e>> \o chain)) @@ ht,
                 stats |-> [sts EXCEPT !.total_unique_terms = @ + 1]]

\* all entries of the table, bucket by bucket in index order, each chain head first
RECURSIVE EntriesFrom(_, _)
EntriesFrom(ht, buckets) ==
    IF buckets = {} THEN <<>>
    ELSE LET b == CHOOSE x \in buckets : \A y \in buckets : x <= y
         IN  ht[b] \o EntriesFrom(ht, buckets \ {b})

Entries(ht) == EntriesFrom(ht, DOMAIN ht)

(***************************************************************************)
(* process_html: the tokenizer loop.  The state of the loop is the token   *)
(* buffer (token, of length len), the table and the statistics; `log` is   *)
(* the list of add_term calls made, each with the positions first..last of *)
(* the text whose characters were scanned into the token.                  *)
(***************************************************************************)
\* strlen of the UTF-8 text: one byte per ASCII character, two per Cyrillic one
RECURSIVE strlen(_)
strlen(text) ==
    IF text = <<>> THEN 0
    ELSE (IF Code[Head(text)] < 128 THEN 1 ELSE 2) + strlen(Tail(text))

RECURSIVE process_html_loop(_, _, _, _)
process_html_loop(whtml, doc_id, p, s) ==
    IF p > Len(whtml) THEN s
    ELSE
        LET c == whtml[p]
        IN  IF is_valid_char(c) THEN
                process_html_loop(whtml, doc_id, p + 1,
                    IF Len(s.token) < MAX_TOKEN_LEN - 1
                        THEN [s EXCEPT !.token = s.token \o <<towlower(c)>>,
                                       !.first = IF s.token = <<>> THEN p ELSE s.first]
                        ELSE s)
            ELSE IF Len(s.token) > 0 THEN
                LET t == stem(s.token)
                    r == add_term(s.ht, s.stats, t, doc_id)
                IN  process_html_loop(whtml, doc_id, p + 1,
                        [token |-> <<>>, first |-> 0,
                         ht |-> r.ht,
                         stats |-> [r.stats EXCEPT
                                      !.total_tokens = @ + 1,
                                      !.total_token_length = @ + Len(s.token)],
                         log |-> Append(s.log, [term |-> t, doc_id |-> doc_id,
                                                first |-> s.first, last |-> p - 1])])
            ELSE process_html_loop(whtml, doc_id, p + 1, s)

process_html(ht, sts, html, doc_id) ==
    process_html_loop(html, doc_id, 1,
        [token |-> <<>>, first |-> 0, ht |-> ht,
         stats |-> [sts EXCEPT !.total_input_bytes = @ + strlen(html)],
         log |-> <<>>])

(***************************************************************************)
(* Input records.  A record is what extract() finds in one line: each of   *)
(* html_content, url and $oid is a string or Absent.  html_content is the  *)
(* decoded text (a sequence of characters), url and oid are byte strings.  *)
(***************************************************************************)
TextAlphabet == {"a", " ", "<"}

RECURSIVE SeqsUpTo(_, _)
SeqsUpTo(S, n) ==
    IF n = 0 THEN {<<>>}
    ELSE LET shorter == SeqsUpTo(S, n - 1)
         IN  shorter \cup {Append(t, c) : t \in {u \in shorter : Len(u) = n - 1}, c \in S}

RedCar == <<"r", "e", "d", " ", "c", "a", "r">>
RedBike == <<"r", "e", "d", " ", "b", "i", "k", "e">>
BlueCar == <<"b", "l", "u", "e", " ", "c", "a", "r">>
Url0 == <<117, 48>>
Url1 == <<117, 49>>
Url2 == <<117, 50>>
Oid0 == <<97, 48>>

ScenarioRecords ==
    {[html_content |-> Some(RedCar), url |-> Some(Url0), oid |-> Some(Oid0)],
     [html_content |-> Some(RedBike), url |-> Some(Url1), oid |-> Absent],
     [html_content |-> Some(BlueCar), url |-> Some(Url2), oid |-> Absent]}

NamedTexts ==
    {
     <<"<", "S", "t", "y", "l", "e", ">", "a", " ", "<", "/", "s", "t", "y", "l", "e", ">", "c", " ">>,
     <<"w", "a", "l", "k", "e", "d", " ", "R", "e", "d", ".">>,
     <<"cyr_k", "cyr_o", "cyr_t", "cyr_o", "cyr_v", " ", "CYR_YO", "cyr_m", " ">>}

Records ==
    {[html_content |-> Some(t), url |-> Absent, oid |-> Absent] :
        t \in SeqsUpTo(TextAlphabet, MaxDocLen) \cup NamedTexts}
    \cup ScenarioRecords
    \cup {[html_content |-> Absent, url |-> Some(Url0), oid |-> Some(Oid0)]}

\* extract that returns the (empty) buffer when the line has no such field
extract_never_null(json, field) ==
    IF json[field] = None THEN Some(<<>>) ELSE json[field]

\* extract: the value of the field, or Absent (NULL) when the line has none
extract(json, field) == json[field]

(***************************************************************************)
(* Bytes                                                                   *)
(***************************************************************************)
\* the k-byte little-endian two's-complement representation of n
RECURSIVE LE(_, _)
LE(n, k) ==
    IF k = 0 THEN <<>>
    ELSE <<n % 256>> \o LE((n - (n % 256)) \div 256, k - 1)

\* the int stored in 4 little-endian bytes
Int32(b) ==
    b[1] + 256 * b[2] + 65536 * b[3]
        + 16777216 * (IF b[4] >= 128 THEN b[4] - 256 ELSE b[4])

\* "Document %d"
RECURSIVE Decimal(_)
Decimal(n) == IF n < 10 THEN <<48 + n>> ELSE Decimal(n \div 10) \o <<48 + (n % 10)>>
Title(n) == <<68, 111, 99, 117, 109, 101, 110, 116, 32>> \o Decimal(n)

\* fwrite(e->term, sizeof(wchar_t), l, f): four bytes for every character
RECURSIVE WcharBytes(_)
WcharBytes(t) == IF t = <<>> THEN <<>> ELSE LE(Code[Head(t)], 4) \o WcharBytes(Tail(t))

(***************************************************************************)
(* save_forward, save_inverted: the bytes written                          *)
(***************************************************************************)
RECURSIVE save_forward_docs(_, _)
save_forward_docs(docs, i) ==
    IF i > Len(docs) THEN <<>>
    ELSE LE(Len(docs[i].title), 4) \o docs[i].title
            \o LE(Len(docs[i].url), 4) \o docs[i].url
            \o LE(Len(docs[i].oid), 4) \o docs[i].oid
            \o save_forward_docs(docs, i + 1)

save_forward(docs, sts) == LE(sts.doc_count, 4) \o save_forward_docs(docs, 1)

RECURSIVE IntsLE(_)
IntsLE(ids) == IF ids = <<>> THEN <<>> ELSE LE(Head(ids), 4) \o IntsLE(Tail(ids))

save_inverted_entry(e) ==
    LE(Len(e.term), 4) \o WcharBytes(e.term) \o LE(e.doc_count, 4) \o IntsLE(e.docs)

RECURSIVE save_inverted_entries(_)
save_inverted_entries(es) ==
    IF es = <<>> THEN <<>>
    ELSE save_inverted_entry(Head(es)) \o save_inverted_entries(Tail(es))

save_inverted(ht, sts) ==
    LE(sts.total_unique_terms, 8) \o save_inverted_entries(Entries(ht))

(***************************************************************************)
(* The indexer's main                                                      *)
(***************************************************************************)
Stats0 ==
    [doc_count |-> 0, total_tokens |-> 0, total_token_length |-> 0,
     total_input_bytes |-> 0, total_unique_terms |-> 0]

IndexerInit ==
    /\ pc = "reading"
    /\ line = NoLine
    /\ hash_table = <<>>
    /\ documents = <<>>
    /\ stats = Stats0
    /\ calls = <<>>
    /\ nread = 0
    /\ nhtml = 0

NoFiles == forward_idx = NoFile /\ inverted_idx = NoFile

EngineIdle ==
    /\ e_pc = "off"
    /\ e_documents = <<>>
    /\ e_hash_table = <<>>
    /\ query = <<>>
    /\ cout = [kind |-> "none"]
    /\ cerr = 0

\* one iteration of the while (getline(...) > 0) loop
IngestRecord(rec) ==
    /\ pc = "reading"
    /\ nread < MaxRecords
    /\ line' = rec
    /\ nread' = nread + 1
    /\ nhtml' = nhtml + (IF rec.html_content = None THEN 0 ELSE 1)
    /\ LET html == extract(rec, "html_content")
       IN  IF html = Absent THEN
               UNCHANGED <<pc, hash_table, documents, stats, calls>>
           ELSE
               LET oid == extract(rec, "oid")
                   url == extract(rec, "url")
                   doc == [title |-> Title(stats.doc_count),
                           url |-> IF url = Absent THEN <<>> ELSE url[1],
                           oid |-> IF oid = Absent THEN <<>> ELSE oid[1]]
                   r == process_html(hash_table, stats, html[1], stats.doc_count)
               IN  /\ documents' = Append(documents, doc)
                   /\ hash_table' = r.ht
                   /\ stats' = [r.stats EXCEPT !.doc_count = @ + 1]
                   /\ calls' = r.log
                   /\ pc' = pc
    /\ UNCHANGED <<filevars, envars>>

\* getline returns -1
EndOfInput ==
    /\ pc = "reading"
    /\ pc' = "eof"
    /\ UNCHANGED <<line, hash_table, documents, stats, calls, nread, nhtml,
                   filevars, envars>>

\* save_forward("forward.idx"); save_inverted("inverted.idx")
SaveIndexes ==
    /\ pc = "eof"
    /\ pc' = "saved"
    /\ forward_idx' = save_forward(documents, stats)
    /\ inverted_idx' = save_inverted(hash_table, stats)
    /\ UNCHANGED <<line, hash_table, documents, stats, calls, nread, nhtml, envars>>


(***************************************************************************)
(* Engine: reading a file.  A stream is [pos, fail]: pos bytes consumed,   *)
(* fail set once a read came short (every later read then stores nothing). *)
(* istream::read stores the bytes it got, so a short read overwrites only  *)
(* the first bytes of its target and leaves the rest as they were.         *)
(***************************************************************************)
Stream0 == [pos |-> 0, fail |-> FALSE]

Zeros(n) == [i \in 1..n |-> 0]

\* in.read(target, n), target holding `prev` (n bytes) before the call
read(f, st, prev, n) ==
    IF st.fail \/ n = 0 THEN [bytes |-> prev, st |-> st]
    ELSE LET avail == Len(f) - st.pos
         IN  IF n <= avail
                 THEN [bytes |-> SubSeq(f, st.pos + 1, st.pos + n),
                       st |-> [st EXCEPT !.pos = st.pos + n]]
                 ELSE [bytes |-> SubSeq(f, st.pos + 1, Len(f))
                                    \o SubSeq(prev, avail + 1, n),
                       st |-> [pos |-> Len(f), fail |-> TRUE]]

\* the values an uninitialized int or long long may hold
Garbage == {-1, 0, 1}

\* the value of a long long, as far as a loop bound needs it: exact when it
\* fits an int, else saturated to the int range
Int64(b) ==
    IF b[8] >= 128 THEN
        IF \A i \in 5..8 : b[i] = 255 THEN
            IF b[4] >= 128 THEN Int32(SubSeq(b, 1, 4)) ELSE -2147483647
        ELSE -2147483647
    ELSE
        IF (\A i \in 5..8 : b[i] = 0) /\ b[4] < 128 THEN Int32(SubSeq(b, 1, 4))
        ELSE 2147483647

(***************************************************************************)
(* load_forward.  `g` is what the uninitialized locals hold.  The outcome  *)
(* is "ok" (the function returned) or "abort" (resize threw                *)
(* std::length_error, which nothing catches).                              *)
(***************************************************************************)
\* A std::string of the engine is [data, zeros]: the bytes data followed by
\* `zeros` bytes 0, data not ending in a byte 0 (resize(l) zero-fills, and l
\* comes from the file).
RECURSIVE StripZeros(_)
StripZeros(d) ==
    IF d # <<>> /\ d[Len(d)] = 0 THEN StripZeros(SubSeq(d, 1, Len(d) - 1)) ELSE d

String(d, z) ==
    LET s == StripZeros(d) IN [data |-> s, zeros |-> z + (Len(d) - Len(s))]

EmptyString == String(<<>>, 0)

\* one length-prefixed string: read l, s.resize(l), read l bytes into s
read_string(f, st, lprev) ==
    LET rl == read(f, st, LE(lprev, 4), 4)
        l == Int32(rl.bytes)
        avail == Len(f) - rl.st.pos
    IN  IF l < 0 THEN [outcome |-> "abort", l |-> l, s |-> EmptyString, st |-> rl.st]
        ELSE IF rl.st.fail \/ l = 0
            THEN [outcome |-> "ok", l |-> l, s |-> String(<<>>, l), st |-> rl.st]
        ELSE IF l <= avail
            THEN [outcome |-> "ok", l |-> l,
                  s |-> String(SubSeq(f, rl.st.pos + 1, rl.st.pos + l), 0),
                  st |-> [rl.st EXCEPT !.pos = rl.st.pos + l]]
        ELSE [outcome |-> "ok", l |-> l,
              s |-> String(SubSeq(f, rl.st.pos + 1, Len(f)), l - avail),
              st |-> [pos |-> Len(f), fail |-> TRUE]]

RECURSIVE load_forward_loop(_, _, _, _, _, _)
load_forward_loop(f, g, i, doc_count, st, docs) ==
    IF i >= doc_count THEN [outcome |-> "ok", documents |-> docs]
    ELSE LET title == read_string(f, st, g)
         IN  IF title.outcome = "abort" THEN [outcome |-> "abort", documents |-> docs]
             ELSE LET url == read_string(f, title.st, title.l)
                  IN  IF url.outcome = "abort" THEN [outcome |-> "abort", documents |-> docs]
                      ELSE LET oid == read_string(f, url.st, url.l)
                           IN  IF oid.outcome = "abort"
                                   THEN [outcome |-> "abort", documents |-> docs]
                                   ELSE load_forward_loop(f, g, i + 1, doc_count, oid.st,
                                            [docs EXCEPT ![i + 1] = url.s])

load_forward(f, g) ==
    IF f = NoFile THEN [outcome |-> "ok", documents |-> <<>>, cerr |-> 1]
    ELSE LET rc == read(f, Stream0, LE(g, 4), 4)
             doc_count == Int32(rc.bytes)
         IN  IF doc_count < 0
                 THEN [outcome |-> "abort", documents |-> <<>>, cerr |-> 0]
                 ELSE LET r == load_forward_loop(f, g, 0, doc_count, rc.st,
                                                 [i \in 1..doc_count |-> EmptyString])
                      IN  [outcome |-> r.outcome, documents |-> r.documents, cerr |-> 0]

(***************************************************************************)
(* load_inverted.  An engine TermEntry is [term, freq, doc_count, docs]:   *)
(* term a byte string, freq the 8 bytes of the long long, docs the list    *)
(* head first, followed by `rest` more nodes that all hold doc_id `fill`.  *)
(* new TermEntry() zero-initializes freq and doc_count.                    *)
(***************************************************************************)
\* the doc_count nodes of one entry.  Once the stream has failed every
\* further node gets the same doc_id g; those nodes are kept as a count
\* (rest) and not one by one.
RECURSIVE load_docs(_, _, _, _, _, _)
load_docs(f, g, j, doc_count, st, docs) ==
    IF j >= doc_count THEN [docs |-> docs, rest |-> 0, st |-> st]
    ELSE IF st.fail THEN [docs |-> docs, rest |-> doc_count - j, st |-> st]
    ELSE LET rd == read(f, st, LE(g, 4), 4)
         IN  load_docs(f, g, j + 1, doc_count, rd.st, Append(docs, Int32(rd.bytes)))

RECURSIVE load_inverted_loop(_, _, _, _, _, _)
load_inverted_loop(f, g, i, total_terms, st, table) ==
    IF i >= total_terms THEN [outcome |-> "ok", hash_table |-> table]
    ELSE LET rf == read(f, st, Zeros(8), 8)
             term == read_string(f, rf.st, g)
         IN  IF term.outcome = "abort" THEN [outcome |-> "abort", hash_table |-> table]
             ELSE LET rc == read(f, term.st, Zeros(4), 4)
                      doc_count == Int32(rc.bytes)
                      rd == load_docs(f, g, 0, doc_count, rc.st, <<>>)
                      e == [term |-> term.s, freq |-> rf.bytes,
                            doc_count |-> doc_count, docs |-> rd.docs,
                            rest |-> rd.rest, fill |-> g]
                      t2 == (term.s :> e) @@ table
                  IN  \* once the stream has failed every further iteration
                      \* builds this same entry under this same key
                      IF st.fail THEN [outcome |-> "ok", hash_table |-> t2]
                      ELSE load_inverted_loop(f, g, i + 1, total_terms, rd.st, t2)

load_inverted(f, g) ==
    IF f = NoFile THEN [outcome |-> "ok", hash_table |-> <<>>, cerr |-> 1]
    ELSE LET rt == read(f, Stream0, LE(g, 8), 8)
             r == load_inverted_loop(f, g, 0, Int64(rt.bytes), rt.st, <<>>)
         IN  [outcome |-> r.outcome, hash_table |-> r.hash_table, cerr |-> 0]

\* main, lines 367-368: both loads, one after the other
LoadIndexes(g) ==
    /\ e_pc = "start"
    /\ LET fw == load_forward(forward_idx, g)
       IN  IF fw.outcome = "abort" THEN
               /\ e_pc' = "aborted"
               /\ cerr' = fw.cerr
               /\ UNCHANGED <<e_documents, e_hash_table>>
           ELSE
               LET inv == load_inverted(inverted_idx, g)
               IN  /\ e_documents' = fw.documents
                   /\ cerr' = fw.cerr + inv.cerr
                   /\ IF inv.outcome = "abort"
                          THEN e_pc' = "aborted" /\ UNCHANGED e_hash_table
                          ELSE e_pc' = "prompt" /\ e_hash_table' = inv.hash_table
    /\ UNCHANGED <<query, cout, ixvars, filevars>>

\* the engine is started on the files the indexer wrote
StartEngine ==
    /\ pc = "saved"
    /\ e_pc = "off"
    /\ e_pc' = "start"
    /\ UNCHANGED <<e_documents, e_hash_table, query, cout, cerr, ixvars, filevars>>

Init == IndexerInit /\ NoFiles /\ EngineIdle

Next ==
    \/ \E rec \in Records : IngestRecord(rec)
    \/ EndOfInput
    \/ SaveIndexes
    \/ StartEngine
    \/ \E g \in Garbage : LoadIndexes(g)

Spec == Init /\ [][Next]_vars


(***************************************************************************)
(* Engine: set operations on DocList (a set of doc ids)                    *)
(***************************************************************************)
\* the doc ids found by walking the list of an entry
DocSet(e) ==
    {e.docs[k] : k \in 1..Len(e.docs)} \cup (IF e.rest > 0 THEN {e.fill} ELSE {})

\* hash_table[key] in place of find: a missing key is inserted
find_inserting(ht, key) ==
    [found |-> TRUE,
     table |-> IF key \in DOMAIN ht THEN ht
               ELSE (key :> [term |-> key, freq |-> Zeros(8), doc_count |-> 0,
                             docs |-> <<>>, rest |-> 0, fill |-> 0]) @@ ht]

\* hash_table.find(key): the table is not changed
find(ht, key) ==
    [found |-> key \in DOMAIN ht, table |-> ht]

\* the result and the table after the call
get_docs_for_term(ht, term) ==
    LET it == find(ht, term)
    IN  [docs |-> IF it.found THEN DocSet(it.table[term]) ELSE {},
         ht |-> it.table]

intersect(a, b) ==
    IF Cardinality(a) > Cardinality(b)
        THEN {doc_id \in b : doc_id \in a}
        ELSE {doc_id \in a : doc_id \in b}

union_op(a, b) == a \cup b

\* n is documents.size()
complement(a, n) == {i \in 0..(n - 1) : i \notin a}

(***************************************************************************)
(* QueryParser: the lexer.  pos is pos_, the number of characters          *)
(* consumed; a query is a sequence of characters.                          *)
(***************************************************************************)
TOKEN_TERM == "TOKEN_TERM"
TOKEN_AND == "TOKEN_AND"
TOKEN_OR == "TOKEN_OR"
TOKEN_NOT == "TOKEN_NOT"
TOKEN_LPAREN == "TOKEN_LPAREN"
TOKEN_RPAREN == "TOKEN_RPAREN"
TOKEN_END == "TOKEN_END"

isspace(c) == c = " "

RECURSIVE skip_whitespace(_, _)
skip_whitespace(q, pos) ==
    IF pos < Len(q) /\ isspace(q[pos + 1]) THEN skip_whitespace(q, pos + 1) ELSE pos

\* the position after the term that starts at pos
RECURSIVE read_term_end(_, _)
read_term_end(q, pos) ==
    IF pos < Len(q) /\ ~(isspace(q[pos + 1]) \/ q[pos + 1] \in {"(", ")", "!", "&", "|"})
        THEN read_term_end(q, pos + 1)
        ELSE pos

RECURSIVE get_next_token(_, _)
get_next_token(q, pos0) ==
    LET pos == skip_whitespace(q, pos0)
    IN  IF pos >= Len(q) THEN [type |-> TOKEN_END, value |-> <<>>, pos |-> pos]
        ELSE
            LET c == q[pos + 1]
            IN  IF c = "(" THEN [type |-> TOKEN_LPAREN, value |-> <<>>, pos |-> pos + 1]
                ELSE IF c = ")" THEN [type |-> TOKEN_RPAREN, value |-> <<>>, pos |-> pos + 1]
                ELSE IF c = "!" THEN [type |-> TOKEN_NOT, value |-> <<>>, pos |-> pos + 1]
                ELSE IF c = "&" /\ pos + 1 < Len(q) /\ q[pos + 2] = "&"
                    THEN [type |-> TOKEN_AND, value |-> <<>>, pos |-> pos + 2]
                ELSE IF c = "|" /\ pos + 1 < Len(q) /\ q[pos + 2] = "|"
                    THEN [type |-> TOKEN_OR, value |-> <<>>, pos |-> pos + 2]
                ELSE
                    LET end == read_term_end(q, pos)
                    IN  IF end > pos
                            THEN [type |-> TOKEN_TERM,
                                  value |-> SubSeq(q, pos + 1, end), pos |-> end]
                            ELSE get_next_token(q, pos + 1)

(***************************************************************************)
(* QueryEvaluator.  The state s of an evaluation is the parser position    *)
(* (pos), current_token_ (type, value), the number of messages written to  *)
(* std::cerr (errs) and the hash table (ht).  Every parse_* returns the    *)
(* DocList (res) and the state after it.                                   *)
(***************************************************************************)
\* the bytes of a query string
QueryBytes(t) == String([i \in 1..Len(t) |-> Code[t[i]]], 0)

advance(q, s) ==
    LET t == get_next_token(q, s.pos)
    IN  [s EXCEPT !.pos = t.pos, !.type = t.type, !.value = t.value]

RECURSIVE parse_expression(_, _, _)
RECURSIVE parse_expression_loop(_, _, _, _)
RECURSIVE parse_expression_step(_, _, _, _, _)
RECURSIVE parse_term(_, _, _)
RECURSIVE parse_factor(_, _, _)

\* parse_factor after the inner parse_expression returned r: the ')' check
parse_factor_close(q, r) ==
    IF r.s.type # TOKEN_RPAREN
        THEN [res |-> {}, s |-> [r.s EXCEPT !.errs = @ + 1]]
        ELSE [res |-> r.res, s |-> advance(q, r.s)]

\* parse_factor on a TERM token: advance(), then get_docs_for_term(term)
parse_factor_lookup(s1, d) == [res |-> d.docs, s |-> [s1 EXCEPT !.ht = d.ht]]

parse_factor(q, n, s) ==
    IF s.type = TOKEN_LPAREN THEN
        parse_factor_close(q, parse_expression(q, n, advance(q, s)))
    ELSE IF s.type = TOKEN_TERM THEN
        parse_factor_lookup(advance(q, s), get_docs_for_term(s.ht, QueryBytes(s.value)))
    ELSE [res |-> {}, s |-> [s EXCEPT !.errs = @ + 1]]

\* parse_term after parse_factor returned r: return complement(result)
parse_term_not(n, r) == [res |-> complement(r.res, n), s |-> r.s]

parse_term(q, n, s) ==
    IF s.type = TOKEN_NOT THEN parse_term_not(n, parse_factor(q, n, advance(q, s)))
    ELSE parse_factor(q, n, s)

\* the body of the while loop with the test on op inverted
RECURSIVE parse_expression_step_inverted(_, _, _, _, _)
parse_expression_step_inverted(q, n, result, op, r) ==
    parse_expression_loop(q, n,
        IF op # TOKEN_AND THEN intersect(result, r.res) ELSE union_op(result, r.res),
        r.s)

\* the body of the while loop after parse_term returned r (the right operand)
parse_expression_step(q, n, result, op, r) ==
    parse_expression_loop(q, n,
        IF op = TOKEN_AND THEN intersect(result, r.res) ELSE union_op(result, r.res),
        r.s)

parse_expression_loop(q, n, result, s) ==
    IF s.type = TOKEN_AND \/ s.type = TOKEN_OR
        THEN parse_expression_step(q, n, result, s.type, parse_term(q, n, advance(q, s)))
        ELSE [res |-> result, s |-> s]

\* parse_expression after the first parse_term returned r
parse_expression_rest(q, n, r) == parse_expression_loop(q, n, r.res, r.s)

parse_expression(q, n, s) == parse_expression_rest(q, n, parse_term(q, n, s))

\* evaluate() with a check that the whole query was consumed: a token left
\* over after the top-level expression is reported and the answer is empty
evaluate_checking_end(q, n, ht) ==
    LET r == parse_expression(q, n,
                 advance(q, [pos |-> 0, type |-> TOKEN_END, value |-> <<>>,
                             errs |-> 0, ht |-> ht]))
    IN  IF r.s.type = TOKEN_END THEN r
        ELSE [res |-> {}, s |-> [r.s EXCEPT !.errs = @ + 1]]

\* QueryParser parser(query); QueryEvaluator evaluator(parser); evaluator.evaluate()
evaluate(q, n, ht) ==
    parse_expression(q, n,
        advance(q, [pos |-> 0, type |-> TOKEN_END, value |-> <<>>, errs |-> 0, ht |-> ht]))

(***************************************************************************)
(* search_single_term, search_boolean: what is printed, and the table      *)
(* after the call                                                          *)
(***************************************************************************)
RECURSIVE Listed(_, _, _, _)
Listed(ids, k, n, out) ==
    IF k > Len(ids) \/ Len(out) >= 50 THEN out
    ELSE Listed(ids, k + 1, n,
                IF ids[k] >= 0 /\ ids[k] < n THEN Append(out, ids[k]) ELSE out)

Min(a, b) == IF a < b THEN a ELSE b

search_single_term(ht, docs, term) ==
    LET key == QueryBytes(term)
        it == find(ht, key)
    IN  IF ~it.found
            THEN [out |-> [kind |-> "single", found |-> FALSE], ht |-> it.table, errs |-> 0]
            ELSE LET e == it.table[key]
                     head == Listed(e.docs, 1, Len(docs), <<>>)
                     more == IF e.fill >= 0 /\ e.fill < Len(docs)
                                 THEN Min(e.rest, 50 - Len(head)) ELSE 0
                 IN  [out |-> [kind |-> "single", found |-> TRUE, term |-> e.term,
                               freq |-> e.freq, doc_count |-> e.doc_count,
                               listed |-> head \o [i \in 1..more |-> e.fill]],
                      ht |-> it.table, errs |-> 0]

search_boolean(ht, docs, q) ==
    LET r == evaluate(q, Len(docs), ht)
    IN  [out |-> [kind |-> "boolean", docs |-> r.res, found |-> Cardinality(r.res)],
         ht |-> r.s.ht, errs |-> r.s.errs]

is_simple(q) == \A i \in 1..Len(q) : q[i] \notin {"&", "|", "!", "(", ")"}

\* one iteration of the interactive loop with a non-empty line
SearchQuery(q) ==
    /\ e_pc = "prompt"
    /\ q # <<>>
    /\ LET r == IF is_simple(q) THEN search_single_term(e_hash_table, e_documents, q)
                ELSE search_boolean(e_hash_table, e_documents, q)
       IN  /\ query' = q
           /\ cout' = r.out
           /\ e_hash_table' = r.ht
           /\ cerr' = r.errs
    /\ UNCHANGED <<e_pc, e_documents, ixvars, filevars>>

\* getline reads an empty line (or fails): the loop ends
ReadEmptyLine ==
    /\ e_pc = "prompt"
    /\ e_pc' = "exit"
    /\ query' = <<>>
    /\ UNCHANGED <<e_documents, e_hash_table, cout, cerr, ixvars, filevars>>


(***************************************************************************)
(* The engine on its own: started on a pair of index files                 *)
(***************************************************************************)
\* a set of ints as an ascending sequence
RECURSIVE Ascending(_)
Ascending(S) ==
    IF S = {} THEN <<>>
    ELSE LET m == CHOOSE x \in S : \A y \in S : x <= y
         IN  <<m>> \o Ascending(S \ {m})

TermA == <<"a">>
TermB == <<"b">>
TermC == <<"c">>
QueryTerms == <<TermA, TermB, TermC>>

\* a record of inverted.idx in the layout load_inverted reads
InvertedRecord(term, ids) ==
    LE(Len(ids), 8) \o LE(Len(term), 4) \o [i \in 1..Len(term) |-> Code[term[i]]]
        \o LE(Len(ids), 4) \o IntsLE(ids)

\* an inverted.idx holding postings[k] for QueryTerms[k], a term of no
\* postings being left out
RECURSIVE InvertedRecords(_, _)
InvertedRecords(postings, k) ==
    IF k > Len(postings) THEN <<>>
    ELSE (IF postings[k] = {} THEN <<>>
          ELSE InvertedRecord(QueryTerms[k], Ascending(postings[k])))
            \o InvertedRecords(postings, k + 1)

InvertedFile(postings) ==
    LE(Cardinality({k \in 1..Len(postings) : postings[k] # {}}), 8)
        \o InvertedRecords(postings, 1)

\* a forward.idx of n documents
ForwardFile(n) ==
    save_forward([i \in 1..n |-> [title |-> Title(i - 1), url |-> <<117, 48 + i - 1>>,
                                  oid |-> <<>>]],
                 [doc_count |-> n])

Prefixes(f) == {SubSeq(f, 1, k) : k \in 0..(Len(f) - 1)}

DocIds == 0..(MaxDocs - 1)
GoodInverted == {InvertedFile(<<A, B, C>>) : A \in SUBSET DocIds, B \in SUBSET DocIds,
                                              C \in SUBSET DocIds}
Inverted0 == InvertedFile(<<{0}, {}, {}>>)
\* what the indexer writes for the one document "red car "
IndexerInverted ==
    LET r == process_html(<<>>, Stats0, RedCar \o <<" ">>, 0)
    IN  save_inverted(r.ht, r.stats)
ShortInverted == Prefixes(Inverted0) \cup {NoFile}

GoodForward == {ForwardFile(n) : n \in 0..MaxDocs}
Forward0 == ForwardFile(MaxDocs)
ShortForward == Prefixes(ForwardFile(1)) \cup {NoFile}

EngineFiles ==
    ({Forward0} \X (GoodInverted \cup ShortInverted \cup {IndexerInverted}))
        \cup ((GoodForward \cup ShortForward) \X {Inverted0})

IndexerOff ==
    /\ pc = "off"
    /\ line = NoLine
    /\ hash_table = <<>>
    /\ documents = <<>>
    /\ stats = Stats0
    /\ calls = <<>>
    /\ nread = 0
    /\ nhtml = 0

QueryAlphabet == {"a", "&", "|", "!", "(", ")"}

NamedQueries ==
    {<<"a", "|", "|", "b", "&", "&", "c">>,
     <<"a", " ", "|", "|", " ", "b", " ", "&", "&", " ", "c">>,
     <<"a", "&", "&", "b", "|", "|", "c">>,
     <<"a", " ", "&", "&", " ", "b", " ", "|", "|", " ", "c">>,
     <<"a", "|", "|", "(", "b", "&", "&", "c", ")">>,
     <<"!", "!", "a">>,
     <<"!", "(", "!", "a", ")">>,
     <<"a", "|", "|", ")">>,
     <<"a", "|", "|">>,
     <<"b", "|", "|", "(", "a">>,
     <<"(", "a", "|", "|", "b">>,
     <<"(", "a", ")", " ", "b">>,
     <<"a", " ", "&", " ", "b">>,
     <<"a", " ", ")", " ", "|", "|", " ", "b">>,
     <<"c">>,
     <<"a", " ", "b">>,
     <<"a", " ", "!", "b">>,
     <<"a", "|", "|", "b", ")", "c">>}

Queries == SeqsUpTo(QueryAlphabet, MaxQueryLen) \cup NamedQueries

\* The lines typed in one session: the first is any query, the later ones
\* are a single term, a boolean query and a query with a syntax error.
FollowUps == {<<"a">>, <<"!", "a", "|", "|", "b">>, <<"(", "a">>}
NextLines == IF query = <<>> THEN Queries ELSE FollowUps

EngineInit ==
    /\ IndexerOff
    /\ \E fs \in EngineFiles : forward_idx = fs[1] /\ inverted_idx = fs[2]
    /\ e_pc = "start"
    /\ e_documents = <<>>
    /\ e_hash_table = <<>>
    /\ query = <<>>
    /\ cout = [kind |-> "none"]
    /\ cerr = 0

EngineNext ==
    \/ \E g \in Garbage : LoadIndexes(g)
    \/ \E q \in NextLines : SearchQuery(q)
    \/ ReadEmptyLine

SpecEngine == EngineInit /\ [][EngineNext]_vars

(***************************************************************************)
(* The index builder on its own: any sequence of add_term calls            *)
(***************************************************************************)
BuilderTerms == {<<"a">>, <<"b">>, <<"r", "e", "d">>}
BuilderDocs == 0..(MaxDocs - 1)

\* one call add_term(token, doc_id); line holds the arguments of the call
AddTerm(token, doc_id) ==
    /\ nread < MaxCalls
    /\ nread' = nread + 1
    /\ calls' = <<[term |-> token, doc_id |-> doc_id]>>
    /\ LET r == add_term(hash_table, stats, token, doc_id)
       IN  hash_table' = r.ht /\ stats' = r.stats
    /\ UNCHANGED <<pc, line, documents, nhtml, filevars, envars>>

BuilderInit == IndexerInit /\ NoFiles /\ EngineIdle

BuilderNext == \E token \in BuilderTerms, doc_id \in BuilderDocs : AddTerm(token, doc_id)

SpecBuilder == BuilderInit /\ [][BuilderNext]_vars


(***************************************************************************)
(* Properties                                                              *)
(***************************************************************************)
\* the record last read was a document, and calls is the log of its process_html
Ingested == nread > 0 /\ line.html_content # None
Text == line.html_content[1]

\* the maximal runs of word-constituent characters of a text, as <<first, last>>
MaximalRuns(text) ==
    {r \in (1..Len(text)) \X (1..Len(text)) :
        /\ r[1] <= r[2]
        /\ \A p \in r[1]..r[2] : is_valid_char(text[p])
        /\ (r[1] = 1 \/ ~is_valid_char(text[r[1] - 1]))
        /\ (r[2] = Len(text) \/ ~is_valid_char(text[r[2] + 1]))}

\* the index as a set of <<term, set of doc ids>>
IndexView(ht) ==
    LET es == Entries(ht)
    IN  {<<es[k].term, {es[k].docs[j] : j \in 1..Len(es[k].docs)}>> : k \in 1..Len(es)}

RedCarIndex ==
    {<<<<"r", "e", "d">>, {0, 1}>>, <<<<"c", "a", "r">>, {0, 2}>>,
     <<<<"b", "i", "k", "e">>, {1}>>, <<<<"b", "l", "u", "e">>, {2}>>}

RedCarCorpusIngested ==
    /\ pc = "eof"
    /\ Len(documents) = 3
    /\ documents[1].url = Url0 /\ documents[2].url = Url1 /\ documents[3].url = Url2

\* C1: ingestion records one occurrence for every maximal run of
\* word-constituent characters of the text, a run that ends at the end of
\* the text included; so the corpus "red car", "red bike", "blue car" gives
\* exactly red -> {0,1}, car -> {0,2}, bike -> {1}, blue -> {2}.
C1_EveryRunRecorded ==
    /\ Ingested =>
          \A r \in MaximalRuns(Text) :
              \E k \in 1..Len(calls) : calls[k].first = r[1] /\ calls[k].last = r[2]
    /\ RedCarCorpusIngested => IndexView(hash_table) = RedCarIndex

\* C2: for every term entry doc_count is the number of nodes of its list,
\* the list holds no doc_id twice and freq >= doc_count; and a call
\* add_term(term, doc_id) with doc_id already in the list of term changes
\* nothing but the freq of that entry, which grows by one.
C2_EntryInv ==
    \A k \in 1..Len(Entries(hash_table)) :
        LET e == Entries(hash_table)[k]
        IN  /\ e.doc_count = Len(e.docs)
            /\ \A i, j \in 1..Len(e.docs) : e.docs[i] = e.docs[j] => i = j
            /\ e.freq >= e.doc_count

C2_RepeatedCall ==
    nread' = nread + 1 =>
        LET c == calls'[1]
            es == Entries(hash_table)
            hit == {k \in 1..Len(es) :
                       es[k].term = c.term
                       /\ \E j \in 1..Len(es[k].docs) : es[k].docs[j] = c.doc_id}
        IN  \A k \in hit :
                /\ Entries(hash_table') = [es EXCEPT ![k].freq = @ + 1]
                /\ stats' = stats

C2_BuilderInvariant == [](C2_EntryInv) /\ [][C2_RepeatedCall]_vars

\* a term seen three times in two documents
C2_Witness ==
    \E k \in 1..Len(Entries(hash_table)) :
        LET e == Entries(hash_table)[k]
        IN  e.freq = 3 /\ e.doc_count = 2 /\ Len(e.docs) = 2

\* wcstombs: the UTF-8 bytes of a term
RECURSIVE wcstombs(_)
wcstombs(t) ==
    IF t = <<>> THEN <<>>
    ELSE LET c == Code[Head(t)]
         IN  (IF c < 128 THEN <<c>> ELSE <<192 + (c \div 64), 128 + (c % 64)>>)
                \o wcstombs(Tail(t))

\* C3: the index the engine has loaded from the files the indexer wrote
\* holds, for every term of the indexer's index, the same key, the same
\* postings set, the same total_frequency and the same doc_count.
C3_RoundTrip ==
    e_pc \in {"prompt", "aborted"} =>
        /\ e_pc = "prompt"
        /\ \A k \in 1..Len(Entries(hash_table)) :
              LET e == Entries(hash_table)[k]
                  key == String(wcstombs(e.term), 0)
              IN  /\ key \in DOMAIN e_hash_table
                  /\ DocSet(e_hash_table[key]) = {e.docs[j] : j \in 1..Len(e.docs)}
                  /\ e_hash_table[key].freq = LE(e.freq, 8)
                  /\ e_hash_table[key].doc_count = e.doc_count

\* the postings of a term in the loaded index (empty for an unknown term)
PostingsOf(term) ==
    IF QueryBytes(term) \in DOMAIN e_hash_table
        THEN DocSet(e_hash_table[QueryBytes(term)])
        ELSE {}

\* the boolean query q has just been answered
Answered(q) == e_pc = "prompt" /\ query = q /\ cout.kind = "boolean"

OrAnd == <<"a", "|", "|", "b", "&", "&", "c">>
OrAndSpaced == <<"a", " ", "|", "|", " ", "b", " ", "&", "&", " ", "c">>
AndOr == <<"a", "&", "&", "b", "|", "|", "c">>
AndOrSpaced == <<"a", " ", "&", "&", " ", "b", " ", "|", "|", " ", "c">>

\* C4: && and || have one precedence and a chain is evaluated left to
\* right: "a || b && c" answers (A union B) intersect C and "a && b || c"
\* answers (A intersect B) union C, for all postings A, B, C.
C4_LeftToRight ==
    /\ (Answered(OrAnd) \/ Answered(OrAndSpaced)) =>
          cout.docs = (PostingsOf(TermA) \cup PostingsOf(TermB)) \cap PostingsOf(TermC)
    /\ (Answered(AndOr) \/ Answered(AndOrSpaced)) =>
          cout.docs = (PostingsOf(TermA) \cap PostingsOf(TermB)) \cup PostingsOf(TermC)

\* "a || b && c" answered where AND-before-OR would give something else
C4_Witness ==
    /\ Answered(OrAnd)
    /\ cout.docs # PostingsOf(TermA) \cup (PostingsOf(TermB) \cap PostingsOf(TermC))

\* C5: a boolean query for which the evaluator reported a syntax error
\* (a missing ')' or a factor that is neither '(' nor a term) answers the
\* empty set.
C5_SyntaxErrorIsEmpty ==
    (e_pc = "prompt" /\ query # <<>> /\ cout.kind = "boolean" /\ cerr > 0) =>
        cout.docs = {}

\* C6: the query "!!a" answers exactly the postings of a.
C6_DoubleNegation ==
    Answered(<<"!", "!", "a">>) => cout.docs = PostingsOf(TermA)

\* what html_filter_char returns for each character of a text
RECURSIVE FilterTrace(_, _, _)
FilterTrace(text, p, st) ==
    IF p > Len(text) THEN <<>>
    ELSE <<html_filter_char(text[p], st).ret>>
            \o FilterTrace(text, p + 1, html_filter_char(text[p], st).st)

\* C7: no character inside a tag, or inside a script or style element,
\* becomes part of a token handed to add_term (an unterminated tag hides
\* the rest of the text).
C7_NoMarkupInTokens ==
    Ingested =>
        \A k \in 1..Len(calls) :
            \A p \in calls[k].first..calls[k].last :
                FilterTrace(Text, 1, HtmlState0)[p] # NUL

\* a file that cannot be opened, or that ends before the counts it declares
UnreadableForward == forward_idx \in ShortForward
UnreadableInverted == inverted_idx \in ShortInverted

\* C8: when an index file cannot be opened or is shorter than its declared
\* counts demand, the load does not complete as a success and the engine
\* does not go on to answer queries.
C8_LoadFailsExplicitly ==
    (UnreadableForward \/ UnreadableInverted) => e_pc \notin {"prompt", "exit"}

\* C9: doc ids are 0, 1, 2, ... in ingestion order over the records that
\* have html_content; a record without it changes neither the index nor
\* the document count; stats.doc_count is the number of records with
\* html_content and every doc_id of a postings list is below it.
C9_Inv ==
    /\ stats.doc_count = nhtml
    /\ Len(documents) = stats.doc_count
    /\ \A i \in 1..Len(documents) : documents[i].title = Title(i - 1)
    /\ \A k \in 1..Len(Entries(hash_table)) :
          \A j \in 1..Len(Entries(hash_table)[k].docs) :
              Entries(hash_table)[k].docs[j] \in 0..(stats.doc_count - 1)

C9_Step ==
    nread' = nread + 1 =>
        IF line'.html_content = None
            THEN UNCHANGED <<hash_table, documents, stats>>
            ELSE /\ stats'.doc_count = stats.doc_count + 1
                 /\ \A k \in 1..Len(calls') : calls'[k].doc_id = nhtml

C9_DenseDocIds == [](C9_Inv) /\ [][C9_Step]_vars

\* three records read, the second without html_content, and a term of both documents
C9_Witness ==
    /\ nread = 3 /\ nhtml = 2 /\ stats.doc_count = 2
    /\ line.html_content # None
    /\ \E k \in 1..Len(Entries(hash_table)) : Len(Entries(hash_table)[k].docs) = 2

\* C10: once the indexes are loaded, a step of the engine (a query of any
\* kind, or the empty line) leaves hash_table and documents as they are; a
\* query leaves the loop at the prompt, and the loop ends only on the
\* empty line.
C10_Step ==
    e_pc = "prompt" =>
        /\ e_hash_table' = e_hash_table
        /\ e_documents' = e_documents
        /\ e_pc' \in {"prompt", "exit"}
        /\ (e_pc' = "exit") = (query' = <<>>)

C10_QueriesLeaveIndex == [][C10_Step]_vars

\* a query with a syntax error was answered on a loaded, non-empty index
C10_Witness ==
    /\ e_pc = "prompt"
    /\ query = <<"(", "a">>
    /\ cerr > 0
    /\ DOMAIN e_hash_table # {}

ParenThenTerm == <<"(", "a", ")", " ", "b">>
LoneAmpersand == <<"a", " ", "&", " ", "b">>
StrayParen == <<"a", " ", ")", " ", "|", "|", " ", "b">>
TermThenNot == <<"a", " ", "!", "b">>

\* where current_token_ starts in the query, s being the evaluator's state
TokenStart(s) == IF s.type = TOKEN_TERM THEN s.pos - Len(s.value) ELSE s.pos - 1

\* the query up to the token the evaluation of q ended on
LeadingPart(q, s) == SubSeq(q, 1, TokenStart(s))

====
